---------------------------- MODULE Spec2Model ----------------------------
(***************************************************************************)
(* Model of 0x02-redis_basic: exercise.py (the Cache class, the            *)
(* count_calls and call_history decorators, replay) and web.py (the        *)
(* count_url_access decorator around get_page), both talking to the Redis  *)
(* database 0 on localhost through redis-py.                               *)
(*                                                                         *)
(* Python values are tagged records, text is a TLA+ string, and a byte     *)
(* string is either the UTF-8 encoding of a text or a byte string that is  *)
(* not valid UTF-8.  A Python call is an operator from the Redis state to  *)
(* a record [st, ret, exc]: the state it leaves, the value it returns and  *)
(* the exception it raises (NoExc when it returns).                        *)
(***************************************************************************)
EXTENDS Integers, Sequences, FiniteSets, TLC

VARIABLES
    redis,      \* the Redis database: [data: key -> value, expire: key -> deadline]
    now,        \* the Redis server's clock, in seconds
    out,        \* what the last operation returned, raised and printed
    calls,      \* history: the Cache.store calls made, in order
    fetches,    \* history: per url, the get_page calls and their fetches
    procs,      \* per client process: where it is in the call it is making
    alt         \* a Cache whose store is decorated in the other order,
                \* on a database of its own: [st, ret, exc]

vars == <<redis, now, out, calls, fetches, procs, alt>>

---------------------------------------------------------------------------
(* Bounds of the model *)

MaxCalls == 3       \* Cache.store calls in a behaviour
MaxInt == 9         \* int() and INCR are modelled on -MaxInt..MaxInt
MaxPageCalls == 3   \* get_page calls in a behaviour
MaxTime == 11       \* the clock stops here

---------------------------------------------------------------------------
(* Python values *)

NoExc == "-"

PyNone == [t |-> "NoneType"]
PyStr(s) == [t |-> "str", v |-> s]
PyInt(n) == [t |-> "int", v |-> n]
\* bytes: valid = TRUE is the UTF-8 encoding of `text'; valid = FALSE is a
\* byte string that is not valid UTF-8, spelled by its repr in `text'.
Utf8(s) == [valid |-> TRUE, text |-> s]
BadBytes(s) == [valid |-> FALSE, text |-> s]
PyBytes(b) == [t |-> "bytes", v |-> b]

Ok(st, v) == [st |-> st, ret |-> v, exc |-> NoExc]
Raise(st, e) == [st |-> st, ret |-> PyNone, exc |-> e]

Digit(d) == <<"0", "1", "2", "3", "4", "5", "6", "7", "8", "9">>[d + 1]

RECURSIVE NatToStr(_)
NatToStr(n) == IF n < 10 THEN Digit(n) ELSE NatToStr(n \div 10) \o Digit(n % 10)

\* str(n) / repr(n) of an int
IntToStr(n) == IF n < 0 THEN "-" \o NatToStr(-n) ELSE NatToStr(n)

\* int(s) of a str: the integer whose decimal text is s, ValueError when
\* there is none.  (int() also accepts surrounding blanks, a "+" sign and
\* "_" separators; no text of the model has them.)
IsIntText(s) == \E n \in -MaxInt..MaxInt : IntToStr(n) = s
ParseInt(s) == CHOOSE n \in -MaxInt..MaxInt : IntToStr(n) = s

\* repr(x)
Repr(x) ==
    CASE x.t = "str" -> "'" \o x.v \o "'"
      [] x.t = "int" -> IntToStr(x.v)
      [] x.t = "bytes" -> IF x.v.valid THEN "b'" \o x.v.text \o "'" ELSE x.v.text
      [] x.t = "NoneType" -> "None"

\* str(x): a str is returned as it is, anything else as its repr
Str(x) == IF x.t = "str" THEN x.v ELSE Repr(x)

\* str(args) of the one-element tuple args = (x,)
StrArgs(x) == "(" \o Repr(x) \o ",)"

\* b.decode("utf-8") of a bytes value b
Decode(b) == IF b.valid THEN [ok |-> TRUE, text |-> b.text]
             ELSE [ok |-> FALSE, text |-> ""]

\* bool(x): the truth value `if x:' tests
Truthy(x) ==
    CASE x.t = "NoneType" -> FALSE
      [] x.t = "str" -> x.v # ""
      [] x.t = "int" -> x.v # 0
      [] x.t = "bytes" -> x.v # Utf8("")

---------------------------------------------------------------------------
(* The Redis commands the two programs send, as redis-py executes them *)

EmptyFn == [k \in {} |-> 0]
EmptyDb == [data |-> EmptyFn, expire |-> EmptyFn]

StrVal(b) == [type |-> "string", val |-> b]
ListVal(items) == [type |-> "list", val |-> items]

Restrict(f, S) == [k \in S |-> f[k]]

\* redis-py's encoding of a command argument: bytes as they are, str as
\* UTF-8, int by its repr; any other type raises DataError.
CanEncode(x) == x.t \in {"str", "int", "bytes"}
Encode(x) ==
    CASE x.t = "bytes" -> x.v
      [] x.t = "str" -> Utf8(x.v)
      [] x.t = "int" -> Utf8(IntToStr(x.v))

RedisExists(st, k) == k \in DOMAIN st.data

\* GET: absent key -> None; a list -> WRONGTYPE
RedisGet(st, k) ==
    IF k \notin DOMAIN st.data THEN Ok(st, PyNone)
    ELSE IF st.data[k].type # "string" THEN Raise(st, "ResponseError")
    ELSE Ok(st, PyBytes(st.data[k].val))

\* SET: writes the value and discards the key's time to live
RedisSet(st, k, x) ==
    IF ~CanEncode(x) THEN Raise(st, "DataError")
    ELSE Ok([data |-> (k :> StrVal(Encode(x))) @@ st.data,
             expire |-> Restrict(st.expire, DOMAIN st.expire \ {k})],
            PyNone)

\* INCR: one atomic command; an absent key counts from 0
RedisIncr(st, k) ==
    IF k \notin DOMAIN st.data
    THEN Ok([st EXCEPT !.data = (k :> StrVal(Utf8("1"))) @@ st.data], PyInt(1))
    ELSE IF \/ st.data[k].type # "string"
            \/ ~st.data[k].val.valid
            \/ ~IsIntText(st.data[k].val.text)
    THEN Raise(st, "ResponseError")
    ELSE LET n == ParseInt(st.data[k].val.text) + 1
         IN  Ok([st EXCEPT !.data[k] = StrVal(Utf8(IntToStr(n)))], PyInt(n))

\* RPUSH: appends at the tail, creating the list
RedisRpush(st, k, x) ==
    IF ~CanEncode(x) THEN Raise(st, "DataError")
    ELSE IF k \notin DOMAIN st.data
    THEN Ok([st EXCEPT !.data = (k :> ListVal(<<Encode(x)>>)) @@ st.data], PyInt(1))
    ELSE IF st.data[k].type # "list" THEN Raise(st, "ResponseError")
    ELSE Ok([st EXCEPT !.data[k] = ListVal(Append(st.data[k].val, Encode(x)))],
            PyInt(Len(st.data[k].val) + 1))

\* LRANGE key 0 -1: the whole list, head first; an absent key is empty
RedisLrange(st, k) ==
    IF k \notin DOMAIN st.data THEN [exc |-> NoExc, items |-> <<>>]
    ELSE IF st.data[k].type # "list" THEN [exc |-> "ResponseError", items |-> <<>>]
    ELSE [exc |-> NoExc, items |-> st.data[k].val]

\* EXPIRE key seconds, sent at time t
RedisExpire(st, k, seconds, t) ==
    IF k \notin DOMAIN st.data THEN Ok(st, PyInt(0))
    ELSE Ok([st EXCEPT !.expire = (k :> (t + seconds)) @@ st.expire], PyInt(1))

\* FLUSHDB
RedisFlushdb(st) == Ok(EmptyDb, PyNone)

\* The keys whose deadline has come are gone at time t
Expired(st, t) == {k \in DOMAIN st.expire : st.expire[k] <= t}
Purge(st, t) ==
    [data |-> Restrict(st.data, DOMAIN st.data \ Expired(st, t)),
     expire |-> Restrict(st.expire, DOMAIN st.expire \ Expired(st, t))]

---------------------------------------------------------------------------
(* exercise.py *)

QualStore == "Cache.store"      \* Cache.store.__qualname__, kept by @wraps
QualGet == "Cache.get"          \* the __qualname__ of a method never decorated

\* The values str(uuid4()) takes in the model
UUIDs == {"uuid-1", "uuid-2"}

\* What a caller may pass to Cache.store: a str, an int, bytes that are not
\* UTF-8, and None, which the declared Union does not allow.
DataValues == {PyStr("a"), PyInt(7), PyBytes(BadBytes("b'\\xff'")), PyNone}

\* The body of Cache.store; rnd is the value of str(uuid4())
\* A store that always writes under the same key
store_fixedkey(st, data, rnd) ==
    LET random_key == rnd
        r == RedisSet(st, "uuid-1", data)
    IN  IF r.exc # NoExc THEN r ELSE Ok(r.st, PyStr(random_key))

store(st, data, rnd) ==
    LET random_key == rnd
        r == RedisSet(st, random_key, data)
    IN  IF r.exc # NoExc THEN r ELSE Ok(r.st, PyStr(random_key))

\* A count_calls that counts the call once the method has returned
count_calls_wrapper_after(st, data, rnd) ==
    LET r == store(st, data, rnd)
        c == RedisIncr(r.st, QualStore)
    IN  IF r.exc # NoExc THEN r
        ELSE IF c.exc # NoExc THEN c
        ELSE Ok(c.st, r.ret)

\* count_calls(store).wrapper, key = "Cache.store"
count_calls_wrapper(st, data, rnd) ==
    LET r == RedisIncr(st, QualStore)
    IN  IF r.exc # NoExc THEN r ELSE store(r.st, data, rnd)

\* A call_history that pushes the output on the inputs list
call_history_wrapper_samekey(st, data, rnd) ==
    LET input_str == StrArgs(data)
        r1 == RedisRpush(st, QualStore \o ":inputs", PyStr(input_str))
        r2 == count_calls_wrapper(r1.st, data, rnd)
        output == Str(r2.ret)
        r3 == RedisRpush(r2.st, QualStore \o ":inputs", PyStr(output))
    IN  IF r1.exc # NoExc THEN r1
        ELSE IF r2.exc # NoExc THEN r2
        ELSE IF r3.exc # NoExc THEN r3
        ELSE Ok(r3.st, PyStr(output))

\* call_history(count_calls(store)).wrapper: this is Cache.store
call_history_wrapper(st, data, rnd) ==
    LET input_str == StrArgs(data)
        r1 == RedisRpush(st, QualStore \o ":inputs", PyStr(input_str))
        r2 == count_calls_wrapper(r1.st, data, rnd)
        output == Str(r2.ret)
        r3 == RedisRpush(r2.st, QualStore \o ":outputs", PyStr(output))
    IN  IF r1.exc # NoExc THEN r1
        ELSE IF r2.exc # NoExc THEN r2
        ELSE IF r3.exc # NoExc THEN r3
        ELSE Ok(r3.st, PyStr(output))

\* call_history(store).wrapper: call_history applied to the bare method
call_history_of_store(st, data, rnd) ==
    LET input_str == StrArgs(data)
        r1 == RedisRpush(st, QualStore \o ":inputs", PyStr(input_str))
        r2 == store(r1.st, data, rnd)
        output == Str(r2.ret)
        r3 == RedisRpush(r2.st, QualStore \o ":outputs", PyStr(output))
    IN  IF r1.exc # NoExc THEN r1
        ELSE IF r2.exc # NoExc THEN r2
        ELSE IF r3.exc # NoExc THEN r3
        ELSE Ok(r3.st, PyStr(output))

\* count_calls(call_history(store)).wrapper: the two decorators of
\* Cache.store applied in the other order
count_calls_of_call_history(st, data, rnd) ==
    LET r == RedisIncr(st, QualStore)
    IN  IF r.exc # NoExc THEN r ELSE call_history_of_store(r.st, data, rnd)

\* Cache.store as its callers' store commands, one command a step.  loc is
\* the caller's frame: pc names the next command, data and rnd are what
\* store() was called with and what uuid4 will give, ret and exc what the
\* call has produced so far; pc = "return" means the call is over.
Frame(data, rnd) ==
    [pc |-> "inputs", data |-> data, rnd |-> rnd, ret |-> PyNone, exc |-> NoExc]

Goto(st, loc, pc) == [st |-> st, loc |-> [loc EXCEPT !.pc = pc]]
Return(st, loc, v) == [st |-> st, loc |-> [loc EXCEPT !.pc = "return", !.ret = v]]
Unwind(st, loc, e) == [st |-> st, loc |-> [loc EXCEPT !.pc = "return", !.exc = e]]

\* A call_history that appends the input only once the method has returned
call_history_step_late(st, loc) ==
    IF loc.pc = "inputs"
    THEN Goto(st, loc, "incr")
    ELSE LET input_str == StrArgs(loc.data)
             r1 == RedisRpush(st, QualStore \o ":inputs", PyStr(input_str))
             output == Str(loc.ret)
             r3 == RedisRpush(r1.st, QualStore \o ":outputs", PyStr(output))
         IN  IF r1.exc # NoExc THEN Unwind(st, loc, r1.exc)
             ELSE IF r3.exc # NoExc THEN Unwind(r1.st, loc, r3.exc)
             ELSE Return(r3.st, loc, PyStr(output))

\* call_history.wrapper: the append of the input before the method is
\* called, and the append of the output after it has returned
call_history_step(st, loc) ==
    IF loc.pc = "inputs"
    THEN LET input_str == StrArgs(loc.data)
             r1 == RedisRpush(st, QualStore \o ":inputs", PyStr(input_str))
         IN  IF r1.exc # NoExc THEN Unwind(st, loc, r1.exc)
             ELSE Goto(r1.st, loc, "incr")
    ELSE LET output == Str(loc.ret)
             r3 == RedisRpush(st, QualStore \o ":outputs", PyStr(output))
         IN  IF r3.exc # NoExc THEN Unwind(st, loc, r3.exc)
             ELSE Return(r3.st, loc, PyStr(output))

\* A count_calls that reads the counter with GET and writes it back, one
\* more, with SET: two commands, and so two steps
count_calls_step_rmw(st, loc) ==
    IF loc.pc = "incr"
    THEN [st |-> st,
          loc |-> [pc |-> "write", data |-> loc.data, rnd |-> loc.rnd,
                   ret |-> loc.ret, exc |-> loc.exc,
                   seen |-> IF RedisGet(st, QualStore).ret = PyNone THEN 0
                            ELSE ParseInt(RedisGet(st, QualStore).ret.v.text)]]
    ELSE LET r == RedisSet(st, QualStore, PyInt(loc.seen + 1))
         IN  [st |-> r.st,
              loc |-> [pc |-> "set", data |-> loc.data, rnd |-> loc.rnd,
                       ret |-> loc.ret, exc |-> loc.exc]]

\* count_calls.wrapper: INCR of the counter, then the method
count_calls_step(st, loc) ==
    LET r == RedisIncr(st, QualStore)
    IN  IF r.exc # NoExc THEN Unwind(st, loc, r.exc)
        ELSE Goto(r.st, loc, "set")

\* The body of Cache.store: uuid4 and SET
store_step(st, loc) ==
    LET r == store(st, loc.data, loc.rnd)
    IN  IF r.exc # NoExc THEN Unwind(st, loc, r.exc)
        ELSE [st |-> r.st, loc |-> [loc EXCEPT !.pc = "outputs", !.ret = r.ret]]

\* The next command of a call of Cache.store
wrapper_step(st, loc) ==
    IF loc.pc \in {"inputs", "outputs"} THEN call_history_step(st, loc)
    ELSE IF loc.pc = "set" THEN store_step(st, loc)
    ELSE count_calls_step(st, loc)

\* A constructor that connects and leaves the database as it is
Cache_init_noflush(st) == Ok(st, PyNone)

\* Cache.__init__: connects to db 0 and flushes it
Cache_init(st) == RedisFlushdb(st)

\* Cache.get(key, fn) with fn omitted
Cache_get(st, key) == RedisGet(st, key)

\* Cache.get_str(key)
Cache_get_str(st, key) ==
    LET r == RedisGet(st, key)
    IN  IF r.exc # NoExc THEN r
        ELSE IF r.ret.t # "bytes" THEN Raise(st, "AttributeError")
        ELSE IF ~Decode(r.ret.v).ok THEN Raise(st, "UnicodeDecodeError")
        ELSE Ok(st, PyStr(Decode(r.ret.v).text))

\* A get_int that converts without a try block
Cache_get_int_nocatch(st, key) ==
    LET r == RedisGet(st, key)
    IN  IF r.exc # NoExc THEN r
        ELSE IF r.ret.t # "bytes" THEN Raise(st, "AttributeError")
        ELSE IF ~Decode(r.ret.v).ok THEN Raise(st, "UnicodeDecodeError")
        ELSE IF ~IsIntText(Decode(r.ret.v).text) THEN Raise(st, "ValueError")
        ELSE Ok(st, PyInt(ParseInt(Decode(r.ret.v).text)))

\* Cache.get_int(key): ValueError (UnicodeDecodeError is one) and TypeError
\* are caught, nothing else is
Cache_get_int(st, key) ==
    LET r == RedisGet(st, key)
    IN  IF r.exc # NoExc THEN r
        ELSE IF r.ret.t # "bytes" THEN Raise(st, "AttributeError")
        ELSE IF ~Decode(r.ret.v).ok THEN Ok(st, PyInt(0))
        ELSE IF ~IsIntText(Decode(r.ret.v).text) THEN Ok(st, PyInt(0))
        ELSE Ok(st, PyInt(ParseInt(Decode(r.ret.v).text)))

\* replay: the header line
HeaderLine(func_name, call_count) ==
    func_name \o " was called " \o IntToStr(call_count) \o " times:"

\* replay: the line of one call
CallLine(func_name, inp_str, outp_str) ==
    func_name \o "(*" \o inp_str \o ") -> " \o outp_str

Min(a, b) == IF a < b THEN a ELSE b

\* A replay that walks the two lists from their tails
ReplayLines_reversed(func_name, inputs, outputs) ==
    LET n == Min(Len(inputs), Len(outputs))
    IN  [i \in 1..n |->
            CallLine(func_name,
                     IF Decode(inputs[n + 1 - i]).ok
                     THEN Decode(inputs[n + 1 - i]).text
                     ELSE "Unable to decode input",
                     IF Decode(outputs[n + 1 - i]).ok
                     THEN Decode(outputs[n + 1 - i]).text
                     ELSE "Unable to decode output")]

\* A replay that stops at the first entry it cannot decode
ReplayLines_abort(func_name, inputs, outputs) ==
    LET n == Min(Len(inputs), Len(outputs))
        bad == {i \in 1..n : ~Decode(inputs[i]).ok \/ ~Decode(outputs[i]).ok}
        k == IF bad = {} THEN n ELSE (CHOOSE i \in bad : \A j \in bad : i <= j) - 1
    IN  [i \in 1..k |->
            CallLine(func_name, Decode(inputs[i]).text, Decode(outputs[i]).text)]

\* replay: the loop over zip(inputs, outputs)
ReplayLines(func_name, inputs, outputs) ==
    [i \in 1..Min(Len(inputs), Len(outputs)) |->
        CallLine(func_name,
                 IF Decode(inputs[i]).ok THEN Decode(inputs[i]).text
                 ELSE "Unable to decode input",
                 IF Decode(outputs[i]).ok THEN Decode(outputs[i]).text
                 ELSE "Unable to decode output")]

\* replay(fn), func_name = fn.__qualname__: [exc, lines], the lines printed
\* before it returned or raised
replay(st, func_name) ==
    LET g == RedisGet(st, func_name)
        inputs == RedisLrange(st, func_name \o ":inputs")
        outputs == RedisLrange(st, func_name \o ":outputs")
    IN  IF ~RedisExists(st, func_name)
        THEN \* call_count = 0
             IF inputs.exc # NoExc THEN [exc |-> inputs.exc, lines |-> <<HeaderLine(func_name, 0)>>]
             ELSE IF outputs.exc # NoExc THEN [exc |-> outputs.exc, lines |-> <<HeaderLine(func_name, 0)>>]
             ELSE [exc |-> NoExc,
                   lines |-> <<HeaderLine(func_name, 0)>>
                             \o ReplayLines(func_name, inputs.items, outputs.items)]
        ELSE IF g.exc # NoExc THEN [exc |-> g.exc, lines |-> <<>>]
        ELSE IF g.ret.t # "bytes" THEN [exc |-> "AttributeError", lines |-> <<>>]
        ELSE IF ~Decode(g.ret.v).ok THEN [exc |-> "UnicodeDecodeError", lines |-> <<>>]
        ELSE IF ~IsIntText(Decode(g.ret.v).text) THEN [exc |-> "ValueError", lines |-> <<>>]
        ELSE LET call_count == ParseInt(Decode(g.ret.v).text)
                 header == <<HeaderLine(func_name, call_count)>>
             IN  IF inputs.exc # NoExc THEN [exc |-> inputs.exc, lines |-> header]
                 ELSE IF outputs.exc # NoExc THEN [exc |-> outputs.exc, lines |-> header]
                 ELSE [exc |-> NoExc,
                       lines |-> header \o ReplayLines(func_name, inputs.items, outputs.items)]

---------------------------------------------------------------------------
(* web.py *)

TTL == 10       \* store.expire(cached_key, 10)

URLs == {"http://x", "http://y"}

\* What requests.get(url).text may be: a page or the empty page
Contents == {"<a>", ""}

\* How the body of get_page ends: it returns a text or raises
FetchOutcomes ==
    {[exc |-> NoExc, html |-> c] : c \in Contents}
        \cup {[exc |-> "ConnectionError", html |-> ""]}

\* A wrapper that counts the access before it fetches
count_url_access_wrapper_incr_first(st, url, fetch, t) ==
    LET cached_key == "cached:" \o url
        count_key == "count:" \o url
        cached_data == RedisGet(st, cached_key)
        r1 == RedisIncr(st, count_key)
        r2 == RedisSet(r1.st, cached_key, PyStr(fetch.html))
        r3 == RedisExpire(r2.st, cached_key, TTL, t)
        With(r, invoked) == [st |-> r.st, ret |-> r.ret, exc |-> r.exc,
                             invoked |-> invoked]
    IN  IF cached_data.exc # NoExc THEN With(cached_data, FALSE)
        ELSE IF Truthy(cached_data.ret)
        THEN IF Decode(cached_data.ret.v).ok
             THEN With(Ok(st, PyStr(Decode(cached_data.ret.v).text)), FALSE)
             ELSE With(Raise(st, "UnicodeDecodeError"), FALSE)
        ELSE IF r1.exc # NoExc THEN With(r1, FALSE)
        ELSE IF fetch.exc # NoExc THEN With(Raise(r1.st, fetch.exc), TRUE)
        ELSE IF r2.exc # NoExc THEN With(r2, TRUE)
        ELSE IF r3.exc # NoExc THEN With(r3, TRUE)
        ELSE With(Ok(r3.st, PyStr(fetch.html)), TRUE)

\* A wrapper that renews the time to live of the page on every hit
count_url_access_wrapper_refresh(st, url, fetch, t) ==
    LET cached_key == "cached:" \o url
        count_key == "count:" \o url
        cached_data == RedisGet(st, cached_key)
        r1 == RedisIncr(st, count_key)
        r2 == RedisSet(r1.st, cached_key, PyStr(fetch.html))
        r3 == RedisExpire(r2.st, cached_key, TTL, t)
        With(r, invoked) == [st |-> r.st, ret |-> r.ret, exc |-> r.exc,
                             invoked |-> invoked]
    IN  IF cached_data.exc # NoExc THEN With(cached_data, FALSE)
        ELSE IF Truthy(cached_data.ret)
        THEN IF Decode(cached_data.ret.v).ok
             THEN With(Ok(RedisExpire(st, cached_key, TTL, t).st,
                          PyStr(Decode(cached_data.ret.v).text)), FALSE)
             ELSE With(Raise(st, "UnicodeDecodeError"), FALSE)
        ELSE IF fetch.exc # NoExc THEN With(Raise(st, fetch.exc), TRUE)
        ELSE IF r1.exc # NoExc THEN With(r1, TRUE)
        ELSE IF r2.exc # NoExc THEN With(r2, TRUE)
        ELSE IF r3.exc # NoExc THEN With(r3, TRUE)
        ELSE With(Ok(r3.st, PyStr(fetch.html)), TRUE)

\* A wrapper that never sends EXPIRE
count_url_access_wrapper_noexpire(st, url, fetch, t) ==
    LET cached_key == "cached:" \o url
        count_key == "count:" \o url
        cached_data == RedisGet(st, cached_key)
        r1 == RedisIncr(st, count_key)
        r2 == RedisSet(r1.st, cached_key, PyStr(fetch.html))
        r3 == r2
        With(r, invoked) == [st |-> r.st, ret |-> r.ret, exc |-> r.exc,
                             invoked |-> invoked]
    IN  IF cached_data.exc # NoExc THEN With(cached_data, FALSE)
        ELSE IF Truthy(cached_data.ret)
        THEN IF Decode(cached_data.ret.v).ok
             THEN With(Ok(st, PyStr(Decode(cached_data.ret.v).text)), FALSE)
             ELSE With(Raise(st, "UnicodeDecodeError"), FALSE)
        ELSE IF fetch.exc # NoExc THEN With(Raise(st, fetch.exc), TRUE)
        ELSE IF r1.exc # NoExc THEN With(r1, TRUE)
        ELSE IF r2.exc # NoExc THEN With(r2, TRUE)
        ELSE IF r3.exc # NoExc THEN With(r3, TRUE)
        ELSE With(Ok(r3.st, PyStr(fetch.html)), TRUE)

\* count_url_access(get_page).wrapper(url) at time t; fetch is how
\* method(url) ends when the wrapper calls it, and `invoked' tells whether
\* it did
count_url_access_wrapper(st, url, fetch, t) ==
    LET cached_key == "cached:" \o url
        count_key == "count:" \o url
        cached_data == RedisGet(st, cached_key)
        r1 == RedisIncr(st, count_key)
        r2 == RedisSet(r1.st, cached_key, PyStr(fetch.html))
        r3 == RedisExpire(r2.st, cached_key, TTL, t)
        With(r, invoked) == [st |-> r.st, ret |-> r.ret, exc |-> r.exc,
                             invoked |-> invoked]
    IN  IF cached_data.exc # NoExc THEN With(cached_data, FALSE)
        ELSE IF Truthy(cached_data.ret)
        THEN IF Decode(cached_data.ret.v).ok
             THEN With(Ok(st, PyStr(Decode(cached_data.ret.v).text)), FALSE)
             ELSE With(Raise(st, "UnicodeDecodeError"), FALSE)
        ELSE IF fetch.exc # NoExc THEN With(Raise(st, fetch.exc), TRUE)
        ELSE IF r1.exc # NoExc THEN With(r1, TRUE)
        ELSE IF r2.exc # NoExc THEN With(r2, TRUE)
        ELSE IF r3.exc # NoExc THEN With(r3, TRUE)
        ELSE With(Ok(r3.st, PyStr(fetch.html)), TRUE)

\* get_page as its callers' store commands, one command a step.  loc is the
\* caller's frame: pc names the next command, url is the argument, fetch is
\* what method(url) is going to produce, ret and exc what the call has
\* produced; pc = "return" means the call is over.
PageFrame(url, fetch) ==
    [pc |-> "get", url |-> url, fetch |-> fetch, ret |-> PyNone, exc |-> NoExc]

\* A wrapper that sends EXPIRE first and SET after it
count_url_access_step_expire_first(st, loc, t) ==
    LET cached_key == "cached:" \o loc.url
        count_key == "count:" \o loc.url
    IN  CASE loc.pc = "get" ->
               LET cached_data == RedisGet(st, cached_key)
               IN  IF cached_data.exc # NoExc THEN Unwind(st, loc, cached_data.exc)
                   ELSE IF ~Truthy(cached_data.ret) THEN Goto(st, loc, "fetch")
                   ELSE IF Decode(cached_data.ret.v).ok
                   THEN Return(st, loc, PyStr(Decode(cached_data.ret.v).text))
                   ELSE Unwind(st, loc, "UnicodeDecodeError")
          [] loc.pc = "fetch" ->
               IF loc.fetch.exc # NoExc THEN Unwind(st, loc, loc.fetch.exc)
               ELSE Goto(st, loc, "incr")
          [] loc.pc = "incr" ->
               LET r1 == RedisIncr(st, count_key)
               IN  IF r1.exc # NoExc THEN Unwind(st, loc, r1.exc)
                   ELSE Goto(r1.st, loc, "set")
          [] loc.pc = "set" ->
               LET r3 == RedisExpire(st, cached_key, TTL, t)
               IN  IF r3.exc # NoExc THEN Unwind(st, loc, r3.exc)
                   ELSE Goto(r3.st, loc, "expire")
          [] loc.pc = "expire" ->
               LET r2 == RedisSet(st, cached_key, PyStr(loc.fetch.html))
               IN  IF r2.exc # NoExc THEN Unwind(st, loc, r2.exc)
                   ELSE Return(r2.st, loc, PyStr(loc.fetch.html))

\* count_url_access.wrapper, command by command: GET and the test of what
\* it returned, method(url), INCR, SET, EXPIRE
count_url_access_step(st, loc, t) ==
    LET cached_key == "cached:" \o loc.url
        count_key == "count:" \o loc.url
    IN  CASE loc.pc = "get" ->
               LET cached_data == RedisGet(st, cached_key)
               IN  IF cached_data.exc # NoExc THEN Unwind(st, loc, cached_data.exc)
                   ELSE IF ~Truthy(cached_data.ret) THEN Goto(st, loc, "fetch")
                   ELSE IF Decode(cached_data.ret.v).ok
                   THEN Return(st, loc, PyStr(Decode(cached_data.ret.v).text))
                   ELSE Unwind(st, loc, "UnicodeDecodeError")
          [] loc.pc = "fetch" ->
               IF loc.fetch.exc # NoExc THEN Unwind(st, loc, loc.fetch.exc)
               ELSE Goto(st, loc, "incr")
          [] loc.pc = "incr" ->
               LET r1 == RedisIncr(st, count_key)
               IN  IF r1.exc # NoExc THEN Unwind(st, loc, r1.exc)
                   ELSE Goto(r1.st, loc, "set")
          [] loc.pc = "set" ->
               LET r2 == RedisSet(st, cached_key, PyStr(loc.fetch.html))
               IN  IF r2.exc # NoExc THEN Unwind(st, loc, r2.exc)
                   ELSE Goto(r2.st, loc, "expire")
          [] loc.pc = "expire" ->
               LET r3 == RedisExpire(st, cached_key, TTL, t)
               IN  IF r3.exc # NoExc THEN Unwind(st, loc, r3.exc)
                   ELSE Return(r3.st, loc, PyStr(loc.fetch.html))

---------------------------------------------------------------------------
(* The state after `cache = Cache()' on a server that holds nothing else *)


\* Per url: the get_page calls made, the fetches started and returned, the
\* time and the page of the last miss that stored one (at = -1: none yet),
\* and whether that miss came more than TTL seconds after the one before
NoFetches ==
    [u \in URLs |-> [calls |-> 0, started |-> 0, returned |-> 0,
                     at |-> -1, html |-> "", late |-> FALSE]]

Outcome(op, arg, ret, exc, lines) ==
    [op |-> op, arg |-> arg, ret |-> ret, exc |-> exc, lines |-> lines]

\* The client processes of the concurrent runs
Procs == {"p1", "p2"}

\* A process that is not inside a call
Idle == [pc |-> "idle"]

Init ==
    /\ redis = Cache_init(EmptyDb).st
    /\ now = 0
    /\ out = Outcome("__init__", PyNone, PyNone, NoExc, <<>>)
    /\ calls = <<>>
    /\ fetches = NoFetches
    /\ procs = [p \in Procs |-> Idle]
    /\ alt = Ok(Cache_init(EmptyDb).st, PyNone)

\* The keys a caller reads: keys store returned, the counter, and a key
\* nothing writes
ReadKeys == UUIDs \cup {QualStore, QualGet}

\* cache.store(data), while fewer than n calls have been made
StoreUpTo(n) ==
    /\ Len(calls) < n
    /\ \E data \in DataValues, rnd \in UUIDs :
          LET r == call_history_wrapper(redis, data, rnd)
          IN  /\ redis' = r.st
              /\ out' = Outcome("store", data, r.ret, r.exc, <<>>)
              /\ calls' = Append(calls, [data |-> data, key |-> rnd,
                                          ret |-> r.ret, exc |-> r.exc])
    /\ UNCHANGED <<now, fetches, procs, alt>>

\* cache.store(data)
Store == StoreUpTo(MaxCalls)

\* cache.get(key)
Get ==
    /\ \E key \in ReadKeys :
          LET r == Cache_get(redis, key)
          IN  /\ redis' = r.st
              /\ out' = Outcome("get", PyStr(key), r.ret, r.exc, <<>>)
    /\ UNCHANGED <<now, calls, fetches, procs, alt>>

\* cache.get_str(key)
GetStr ==
    /\ \E key \in ReadKeys :
          LET r == Cache_get_str(redis, key)
          IN  /\ redis' = r.st
              /\ out' = Outcome("get_str", PyStr(key), r.ret, r.exc, <<>>)
    /\ UNCHANGED <<now, calls, fetches, procs, alt>>

\* cache.get_int(key)
GetInt ==
    /\ \E key \in ReadKeys :
          LET r == Cache_get_int(redis, key)
          IN  /\ redis' = r.st
              /\ out' = Outcome("get_int", PyStr(key), r.ret, r.exc, <<>>)
    /\ UNCHANGED <<now, calls, fetches, procs, alt>>

\* replay(cache.store), replay(cache.get)
Replay ==
    /\ \E fn \in {QualStore, QualGet} :
          LET r == replay(redis, fn)
          IN  out' = Outcome("replay", PyStr(fn), PyNone, r.exc, r.lines)
    /\ UNCHANGED <<redis, now, calls, fetches, procs, alt>>

Next == Store \/ Get \/ GetStr \/ GetInt \/ Replay

Spec == Init /\ [][Next]_vars


RECURSIVE SumCalls(_)
SumCalls(S) ==
    IF S = {} THEN 0
    ELSE LET u == CHOOSE x \in S : TRUE
         IN  fetches[u].calls + SumCalls(S \ {u})

PageCalls == SumCalls(URLs)

\* get_page(url), the decorated function
GetPage ==
    /\ \E url \in URLs, fetch \in FetchOutcomes :
          LET r == count_url_access_wrapper(redis, url, fetch, now)
              f == fetches[url]
              stored == r.invoked /\ r.exc = NoExc
          IN  /\ PageCalls < MaxPageCalls
              /\ redis' = r.st
              /\ out' = Outcome("get_page", PyStr(url), r.ret, r.exc, <<>>)
              /\ fetches' = [fetches EXCEPT ![url] =
                    [calls |-> f.calls + 1,
                     started |-> f.started + (IF r.invoked THEN 1 ELSE 0),
                     returned |-> f.returned
                        + (IF r.invoked /\ fetch.exc = NoExc THEN 1 ELSE 0),
                     at |-> IF stored THEN now ELSE f.at,
                     html |-> IF stored THEN fetch.html ELSE f.html,
                     late |-> IF stored THEN f.at >= 0 /\ now - f.at > TTL
                              ELSE f.late]]
    /\ UNCHANGED <<now, calls, procs, alt>>

\* A second passes on the server; keys whose time to live is over are gone
Tick ==
    /\ now < MaxTime
    /\ now' = now + 1
    /\ redis' = Purge(redis, now + 1)
    /\ UNCHANGED <<out, calls, fetches, procs, alt>>

NextWeb == GetPage \/ Tick

SpecWeb == Init /\ [][NextWeb]_vars

---------------------------------------------------------------------------
(* What the store holds, as the programs read it *)

\* The integer under a counter key, an absent key reading as 0
CounterOf(st, key) ==
    IF key \notin DOMAIN st.data THEN 0 ELSE ParseInt(st.data[key].val.text)

CallCounter == CounterOf(redis, QualStore)
Inputs == RedisLrange(redis, QualStore \o ":inputs").items
Outputs == RedisLrange(redis, QualStore \o ":outputs").items
AccessCounter(u) == CounterOf(redis, "count:" \o u)

\* The seconds a key has left at time t, as the TTL command answers:
\* -2 for an absent key, -1 for a key that does not expire
TimeToLive(st, key, t) ==
    IF key \notin DOMAIN st.data THEN -2
    ELSE IF key \notin DOMAIN st.expire THEN -1
    ELSE st.expire[key] - t

AllCompleted == \A i \in 1..Len(calls) : calls[i].exc = NoExc

\* A step that is one call of Cache.store / of get_page(u)
StoreStep == Len(calls') = Len(calls) + 1
PageStep(u) == fetches'[u].calls = fetches[u].calls + 1

---------------------------------------------------------------------------
(* Claims about exercise.py, checked under Spec *)

\* C1: after N calls of Cache.store on one Cache, all of which returned,
\* the counter under "Cache.store" is N, the inputs list and the outputs
\* list each hold N entries, and entry i of each is the input, respectively
\* the output, of call i.
C1_SequentialCalls ==
    AllCompleted =>
        /\ CallCounter = Len(calls)
        /\ Len(Inputs) = Len(calls)
        /\ Len(Outputs) = Len(calls)
        /\ \A i \in 1..Len(calls) :
              /\ Inputs[i] = Utf8(StrArgs(calls[i].data))
              /\ Outputs[i] = Utf8(Str(calls[i].ret))

\* Three calls returned, with different inputs and different outputs
C1_Witness ==
    /\ Len(calls) = MaxCalls
    /\ AllCompleted
    /\ calls[1].data # calls[2].data
    /\ calls[1].ret # calls[2].ret
    /\ CallCounter = MaxCalls

\* C2: a call of Cache.store whose underlying operation raises appends
\* neither an input nor an output, so between calls the two lists have the
\* same length.
C2_AllOrNothing ==
    /\ Len(Inputs) = Len(Outputs)
    /\ Len(Inputs) = Cardinality({i \in 1..Len(calls) : calls[i].exc = NoExc})

\* C3: every call of Cache.store adds exactly one to the counter, also a
\* call whose underlying operation raises (redis-py refuses the data), and
\* that exception reaches the caller.
C3_CountBeforeCall ==
    [][StoreStep =>
          /\ CallCounter' = CallCounter + 1
          /\ ~CanEncode(out'.arg) => out'.exc = "DataError"]_vars

\* A call raised after earlier calls, and every call was counted
C3_Witness ==
    /\ out.op = "store"
    /\ out.exc = "DataError"
    /\ Len(calls) = MaxCalls
    /\ CallCounter = MaxCalls


\* C8: replay(cache.store) after calls that all returned prints, after the
\* header, one line per call in the order of the calls: line i shows the
\* input of call i and the output call i returned.
C8_ReplayFifo ==
    (out.op = "replay" /\ out.arg = PyStr(QualStore) /\ AllCompleted) =>
        /\ out.exc = NoExc
        /\ Len(out.lines) = Len(calls) + 1
        /\ \A i \in 1..Len(calls) :
              out.lines[i + 1] =
                  CallLine(QualStore, StrArgs(calls[i].data), Str(calls[i].ret))

\* A replay of three calls whose inputs are not in sorted order
C8_Witness ==
    /\ out.op = "replay"
    /\ out.arg = PyStr(QualStore)
    /\ Len(calls) = MaxCalls
    /\ AllCompleted
    /\ calls[1].data = PyStr("a")
    /\ calls[2].data = PyInt(7)
    /\ calls[3].data = PyStr("a")
    /\ Len(out.lines) = MaxCalls + 1

\* C9: the header of a replay report states the number of call lines that
\* follow it, whatever calls of Cache.store, returning or raising, came
\* before.
C9_HeaderCountsLines ==
    (out.op = "replay" /\ out.exc = NoExc) =>
        out.lines[1] = HeaderLine(out.arg.v, Len(out.lines) - 1)

\* C10: reading the counter of an operation that was never called gives 0
\* and raises nothing, in replay and in Cache.get_int.
C10_AbsentCounterReadsZero ==
    (out.arg \in {PyStr(QualStore), PyStr(QualGet)}
        /\ ~RedisExists(redis, out.arg.v)) =>
        /\ out.op = "replay" =>
              /\ out.exc = NoExc
              /\ out.lines = <<HeaderLine(out.arg.v, 0)>>
        /\ out.op = "get_int" =>
              /\ out.exc = NoExc
              /\ out.ret = PyInt(0)


---------------------------------------------------------------------------
(* Claims about web.py, checked under SpecWeb *)

\* C4: once a miss has stored a page for a url, every call of get_page for
\* that url less than 10 seconds after the miss returns that page and does
\* not fetch again, whatever the page is, the empty one included.
C4_HitWithinTtl ==
    [][\A u \in URLs :
          (PageStep(u) /\ fetches[u].at >= 0 /\ now - fetches[u].at < TTL) =>
              /\ out'.exc = NoExc
              /\ out'.ret = PyStr(fetches[u].html)
              /\ fetches'[u].started = fetches[u].started]_vars

\* C5: between calls, the counter under "count:" + url is the number of
\* fetches for that url that returned: hits and failed fetches add nothing.
C5_CountsMisses ==
    \A u \in URLs : AccessCounter(u) = fetches[u].returned

\* A url with a miss, a hit and a failed fetch; the other url never asked
C5_Witness ==
    \E u \in URLs :
        /\ fetches[u].calls = MaxPageCalls
        /\ fetches[u].returned = 1
        /\ fetches[u].started = 2
        /\ AccessCounter(u) = 1
        /\ \A v \in URLs \ {u} : AccessCounter(v) = 0

\* C6: a call of get_page for a url more than 10 seconds after the last
\* miss that stored its page fetches again, and when the fetch returns the
\* counter goes up by one and the page is stored with 10 seconds to live.
C6_MissAfterExpiry ==
    [][\A u \in URLs :
          (PageStep(u) /\ fetches[u].at >= 0 /\ now - fetches[u].at > TTL) =>
              /\ fetches'[u].started = fetches[u].started + 1
              /\ out'.exc = NoExc =>
                    /\ AccessCounter(u)' = AccessCounter(u) + 1
                    /\ RedisGet(redis', "cached:" \o u).ret = PyBytes(Utf8(out'.ret.v))
                    /\ TimeToLive(redis', "cached:" \o u, now) = TTL]_vars

\* The second miss of a url, more than 10 seconds after its first: 1 -> 2
C6_Witness ==
    \E u \in URLs :
        /\ fetches[u].late
        /\ fetches[u].html # ""
        /\ fetches[u].calls = 2
        /\ AccessCounter(u) = 2
        /\ TimeToLive(redis, "cached:" \o u, now) = TTL

\* C7: when the fetch raises during a miss, the caller gets the exception
\* and the store is as it was: no page, no time to live, no count.
C7_FetchFailure ==
    [][\A u \in URLs :
          (/\ PageStep(u)
           /\ fetches'[u].started = fetches[u].started + 1
           /\ fetches'[u].returned = fetches[u].returned) =>
              /\ out'.exc = "ConnectionError"
              /\ redis' = redis]_vars

\* A fetch failed on a url that already had a count
C7_Witness ==
    /\ out.op = "get_page"
    /\ out.exc = "ConnectionError"
    /\ fetches[out.arg.v].started = fetches[out.arg.v].returned + 1
    /\ AccessCounter(out.arg.v) = 1

---------------------------------------------------------------------------
(* Further claims about exercise.py, checked under Spec *)

\* The key holds a string that is not the text of an integer: text that is
\* not a numeral, or bytes that are not UTF-8
NotIntValue(st, key) ==
    /\ key \in DOMAIN st.data
    /\ st.data[key].type = "string"
    /\ \/ ~st.data[key].val.valid
       \/ ~IsIntText(st.data[key].val.text)

\* C14: Cache.get_int on a key whose value is not the text of an integer
\* returns 0, raises nothing and leaves the store as it was.
C14_GetIntDefaultsToZero ==
    [][(out'.op = "get_int" /\ NotIntValue(redis, out'.arg.v)) =>
          /\ out'.exc = NoExc
          /\ out'.ret = PyInt(0)
          /\ redis' = redis]_vars

\* get_int read bytes that are not UTF-8 while another key holds text that
\* is no numeral
C14_Witness ==
    /\ out.op = "get_int"
    /\ NotIntValue(redis, out.arg.v)
    /\ ~redis.data[out.arg.v].val.valid
    /\ out.ret = PyInt(0)
    /\ \E k \in UUIDs : NotIntValue(redis, k) /\ redis.data[k].val = Utf8("a")

---------------------------------------------------------------------------
(* The two orders of decoration side by side: the same calls are made on
   Cache.store as it is and on a store decorated count_calls outermost,
   each on its own database *)

StoreBoth ==
    /\ Len(calls) < MaxCalls
    /\ \E data \in DataValues, rnd \in UUIDs :
          LET r == call_history_wrapper(redis, data, rnd)
              b == count_calls_of_call_history(alt.st, data, rnd)
          IN  /\ redis' = r.st
              /\ out' = Outcome("store", data, r.ret, r.exc, <<>>)
              /\ calls' = Append(calls, [data |-> data, key |-> rnd,
                                          ret |-> r.ret, exc |-> r.exc])
              /\ alt' = [st |-> b.st, ret |-> b.ret, exc |-> b.exc]
    /\ UNCHANGED <<now, fetches, procs>>

NextOrder == StoreBoth

SpecOrder == Init /\ [][NextOrder]_vars

\* C13: after any sequence of calls, returning or raising, the two orders
\* of decoration leave the same counter and the same lists, gave the same
\* return value or exception, and counted every call once.
C13_OrderIndependent ==
    /\ redis = alt.st
    /\ out.op = "store" => (out.ret = alt.ret /\ out.exc = alt.exc)
    /\ CallCounter = Len(calls)
    /\ CounterOf(alt.st, QualStore) = Len(calls)

\* Calls that returned and a call that raised, made in both orders
C13_Witness ==
    /\ Len(calls) = MaxCalls
    /\ calls[1].exc = NoExc
    /\ calls[2].exc = "DataError"
    /\ calls[3].exc = NoExc
    /\ alt.exc = NoExc
    /\ Len(RedisLrange(alt.st, QualStore \o ":outputs").items) = 2

---------------------------------------------------------------------------
(* replay on a database as any client of db 0 may have left it: the
   history lists hold entries call_history wrote and entries that are not
   UTF-8 *)

MaxHist == 2        \* entries in a history list

SeqsUpTo(S, n) == UNION {[1..k -> S] : k \in 0..n}

\* The database with the counter and the two lists of Cache.store set; an
\* absent counter is count = -1, an empty list is an absent key
HistoryDb(count, inputs, outputs) ==
    [data |->
        (IF count < 0 THEN EmptyFn
         ELSE QualStore :> StrVal(Utf8(IntToStr(count))))
        @@ (IF inputs = <<>> THEN EmptyFn
            ELSE (QualStore \o ":inputs") :> ListVal(inputs))
        @@ (IF outputs = <<>> THEN EmptyFn
            ELSE (QualStore \o ":outputs") :> ListVal(outputs)),
     expire |-> EmptyFn]

InitReplay ==
    /\ \E count \in -1..MaxHist :
       \E inputs \in SeqsUpTo({Utf8(StrArgs(PyStr("a"))), BadBytes("b'\\xff'")}, MaxHist) :
       \E outputs \in SeqsUpTo({Utf8("uuid-1"), BadBytes("b'\\xfe'")}, MaxHist) :
          redis = HistoryDb(count, inputs, outputs)
    /\ now = 0
    /\ out = Outcome("__init__", PyNone, PyNone, NoExc, <<>>)
    /\ calls = <<>>
    /\ fetches = NoFetches
    /\ procs = [p \in Procs |-> Idle]
    /\ alt = Ok(EmptyDb, PyNone)

NextReplay == Replay

SpecReplay == InitReplay /\ [][NextReplay]_vars

\* What replay shows for a stored entry: its text, or the placeholder
Shown(b, placeholder) == IF b.valid THEN b.text ELSE placeholder

\* C15: replay prints one line for every pair of history entries, also for
\* a pair with an entry that is not UTF-8 and for the pairs after it; only
\* the undecodable entry is replaced by its placeholder, and replay returns.
C15_PlaceholderPerEntry ==
    (out.op = "replay" /\ out.arg = PyStr(QualStore)) =>
        /\ out.exc = NoExc
        /\ Len(out.lines) = 1 + Min(Len(Inputs), Len(Outputs))
        /\ \A i \in 1..Min(Len(Inputs), Len(Outputs)) :
              out.lines[i + 1] =
                  CallLine(QualStore,
                           Shown(Inputs[i], "Unable to decode input"),
                           Shown(Outputs[i], "Unable to decode output"))

\* A report whose first pair has an undecodable input and a good output,
\* and whose second pair is good
C15_Witness ==
    /\ out.op = "replay"
    /\ out.arg = PyStr(QualStore)
    /\ Len(Inputs) = 2
    /\ Len(Outputs) = 2
    /\ ~Inputs[1].valid
    /\ Outputs[1].valid
    /\ Inputs[2].valid
    /\ Outputs[2].valid
    /\ out.lines[2] = "Cache.store(*Unable to decode input) -> uuid-1"
    /\ out.lines[3] = "Cache.store(*('a',)) -> uuid-1"

---------------------------------------------------------------------------
(* exercise.py with further Cache instances constructed along the way *)

MaxLifeCalls == 2   \* Cache.store calls in a behaviour with constructions

\* cache.store(data) on any of the instances
StoreLife == StoreUpTo(MaxLifeCalls)

\* Cache(): another instance, on the same database
NewCache ==
    /\ LET r == Cache_init(redis)
       IN  /\ redis' = r.st
           /\ out' = Outcome("__init__", PyNone, r.ret, r.exc, <<>>)
    /\ UNCHANGED <<now, calls, fetches, procs, alt>>

NextLife == StoreLife \/ Get \/ GetStr \/ GetInt \/ Replay \/ NewCache

SpecLife == Init /\ [][NextLife]_vars

\* C16: the counter under "Cache.store" never decreases, whatever the
\* layer does: constructing Cache instances, store, get, get_str, get_int,
\* replay.
C16_NeverDecreases == [][CallCounter' >= CallCounter]_vars

\* C16, amended: the counter never decreases across store, get, get_str,
\* get_int and replay; constructing a Cache flushes the database and the
\* counter reads 0 again.
C16_ResetOnlyByInit ==
    [][/\ out'.op # "__init__" => CallCounter' >= CallCounter
       /\ out'.op = "__init__" => (CallCounter' = 0 /\ redis' = EmptyDb)]_vars

\* A Cache was constructed after calls of store, and the counter is gone
C16_Witness ==
    /\ out.op = "__init__"
    /\ Len(calls) = MaxLifeCalls
    /\ ~RedisExists(redis, QualStore)

---------------------------------------------------------------------------
(* Further claims about web.py, checked under SpecWeb *)

\* C18: a call of get_page that finds the page cached changes nothing in
\* the store, so a cached page always expires 10 seconds after the miss
\* that stored it, however many hits came in between.
C18_HitChangesNothing ==
    [][\A u \in URLs :
          /\ (PageStep(u) /\ fetches'[u].started = fetches[u].started) =>
                redis' = redis
          /\ RedisExists(redis', "cached:" \o u) =>
                TimeToLive(redis', "cached:" \o u, fetches'[u].at) = TTL]_vars

\* Two hits on a page stored 9 seconds ago, which still expires on time
C18_Witness ==
    \E u \in URLs :
        /\ out.op = "get_page"
        /\ out.arg = PyStr(u)
        /\ fetches[u].calls = 3
        /\ fetches[u].started = 1
        /\ now = fetches[u].at + TTL - 1
        /\ TimeToLive(redis, "cached:" \o u, now) = 1

---------------------------------------------------------------------------
(* Cache.store and earlier data, checked under Spec *)

\* What the store holds under a key, also when it holds nothing
ValueAt(st, k) == IF k \in DOMAIN st.data THEN st.data[k] ELSE [type |-> "none"]

\* C20 as stated: a successful Cache.store writes under a key that is not
\* in use, leaves every other key alone, and Cache.get of the returned key
\* gives back the data that was stored.
C20_NeverOverwrites ==
    [][(StoreStep /\ out'.exc = NoExc) =>
          \E k \in UUIDs :
              /\ out'.ret = PyStr(k)
              /\ ~RedisExists(redis, k)
              /\ \A k2 \in UUIDs \ {k} : ValueAt(redis', k2) = ValueAt(redis, k2)
              /\ Cache_get(redis', k).ret = out'.arg]_vars

\* C20 amended: a successful Cache.store writes the byte encoding of the
\* data under the key uuid4 produced, whether or not that key is in use,
\* returns that key, leaves every other key alone, and Cache.get of the
\* returned key gives back the byte encoding of the data.
C20_WritesUnderReturnedKey ==
    [][(StoreStep /\ out'.exc = NoExc) =>
          \E k \in UUIDs :
              /\ k = calls'[Len(calls')].key
              /\ out'.ret = PyStr(k)
              /\ ValueAt(redis', k) = StrVal(Encode(out'.arg))
              /\ \A k2 \in UUIDs \ {k} : ValueAt(redis', k2) = ValueAt(redis, k2)
              /\ Cache_get(redis', k) = Ok(redis', PyBytes(Encode(out'.arg)))]_vars

\* The second call stored 7 under the other key; "a" is still under the first
C20_Witness ==
    /\ Len(calls) = 2
    /\ out.op = "store"
    /\ calls[1].data = PyStr("a") /\ calls[1].exc = NoExc
    /\ calls[2].data = PyInt(7) /\ calls[2].exc = NoExc
    /\ calls[1].key = "uuid-1" /\ calls[2].key = "uuid-2"
    /\ Cache_get(redis, "uuid-1").ret = PyBytes(Utf8("a"))
    /\ Cache_get(redis, "uuid-2").ret = PyBytes(Utf8("7"))

---------------------------------------------------------------------------
(* Concurrent callers of Cache.store: every process runs the commands of
   its call in order, and the commands of different processes interleave
   in any way.  Each command is atomic in the store. *)

MaxConcCalls == 2   \* Cache.store calls in a concurrent behaviour

\* A process calls cache.store(data)
Call(p) ==
    /\ procs[p].pc = "idle"
    /\ Len(calls) < MaxConcCalls
    /\ \E data \in DataValues, rnd \in UUIDs :
          /\ procs' = [procs EXCEPT ![p] = Frame(data, rnd)]
          /\ calls' = Append(calls, [data |-> data, key |-> rnd, proc |-> p,
                                      ret |-> PyNone, exc |-> NoExc,
                                      inpos |-> 0, outpos |-> 0,
                                      done |-> FALSE])
    /\ UNCHANGED <<redis, now, out, fetches, alt>>

\* The call a process is running: the last one it began
Current(p) == CHOOSE i \in 1..Len(calls) : calls[i].proc = p /\ ~calls[i].done

\* A process sends the next command of its call
Step(p) ==
    /\ procs[p].pc # "idle"
    /\ LET r == wrapper_step(redis, procs[p])
           i == Current(p)
           over == r.loc.pc = "return"
           newin == Len(RedisLrange(r.st, QualStore \o ":inputs").items)
           newout == Len(RedisLrange(r.st, QualStore \o ":outputs").items)
       IN  /\ redis' = r.st
           /\ procs' = [procs EXCEPT ![p] = IF over THEN Idle ELSE r.loc]
           /\ calls' = [calls EXCEPT
                  ![i].inpos = IF newin # Len(Inputs) THEN newin ELSE @,
                  ![i].outpos = IF newout # Len(Outputs) THEN newout ELSE @,
                  ![i].ret = IF over THEN r.loc.ret ELSE @,
                  ![i].exc = IF over THEN r.loc.exc ELSE @,
                  ![i].done = over]
           /\ out' = IF over
                     THEN Outcome("store", procs[p].data, r.loc.ret, r.loc.exc, <<>>)
                     ELSE out
    /\ UNCHANGED <<now, fetches, alt>>

NextConc == \E p \in Procs : Call(p) \/ Step(p)
SpecConc == Init /\ [][NextConc]_vars

\* Reading the concurrent state
Quiescent == \A p \in Procs : procs[p].pc = "idle"
Counted(p) == procs[p].pc \in {"set", "outputs"}
InFlight(p) == procs[p].pc \notin {"idle", "inputs"}
Raised == {i \in 1..Len(calls) : calls[i].done /\ calls[i].exc # NoExc}
Overlapped ==
    \E i, j \in 1..Len(calls) :
        /\ calls[i].inpos < calls[j].inpos
        /\ calls[j].outpos # 0
        /\ calls[j].outpos < calls[i].outpos

\* C11: concurrent callers never lose an increment: the counter is the
\* number of calls whose INCR has been sent, and once every call is over
\* it is the number of calls made, under every interleaving.
C11_NoLostIncrement ==
    /\ CallCounter = Cardinality({i \in 1..Len(calls) : calls[i].done})
                       + Cardinality({p \in Procs : Counted(p)})
    /\ Quiescent => CallCounter = Len(calls)

\* Two calls that overlapped are over, and both are counted
C11_Witness ==
    /\ Quiescent
    /\ Len(calls) = MaxConcCalls
    /\ Overlapped
    /\ CallCounter = MaxConcCalls

\* C17: in every state of every interleaving the outputs list is no
\* longer than the inputs list, and it is shorter by the number of calls
\* between their two appends plus the number of calls that raised.
C17_OutputsLagInputs ==
    /\ Len(Outputs) <= Len(Inputs)
    /\ Len(Inputs) - Len(Outputs) =
          Cardinality({p \in Procs : InFlight(p)}) + Cardinality(Raised)

\* One call has raised and the other is between its two appends
C17_Witness ==
    /\ Len(Inputs) = 2
    /\ Len(Outputs) = 0
    /\ Cardinality(Raised) = 1
    /\ \E p \in Procs : procs[p].pc = "outputs"

\* C12: when concurrent calls have all returned, the two lists have the
\* same length and the output at each position is the output of the call
\* whose input is at that position.
C12_PositionalPairing ==
    (/\ Quiescent
     /\ Len(calls) >= 2
     /\ \A i \in 1..Len(calls) : calls[i].done /\ calls[i].exc = NoExc) =>
        /\ Len(Inputs) = Len(Outputs)
        /\ \A i \in 1..Len(calls) :
              /\ Inputs[calls[i].inpos] = Utf8(StrArgs(calls[i].data))
              /\ Outputs[calls[i].inpos] = Utf8(Str(calls[i].ret))

---------------------------------------------------------------------------
(* Concurrent callers of get_page: every process runs the commands of its
   call in order, the commands of different processes interleave in any
   way, and the server's clock moves between them. *)

MaxConcPages == 2   \* get_page calls in a concurrent behaviour
MaxConcTime == 2    \* the clock of a concurrent behaviour stops here

\* A process calls get_page(url)
CallPage(p) ==
    /\ procs[p].pc = "idle"
    /\ Len(calls) < MaxConcPages
    /\ \E url \in URLs, fetch \in FetchOutcomes :
          /\ procs' = [procs EXCEPT ![p] = PageFrame(url, fetch)]
          /\ calls' = Append(calls, [url |-> url, proc |-> p, done |-> FALSE,
                                      ret |-> PyNone, exc |-> NoExc,
                                      overlap |-> FALSE])
    /\ UNCHANGED <<redis, now, out, fetches, alt>>

\* Another caller has sent its SET for the url and not yet its EXPIRE
MidMiss(p, url) ==
    \E q \in Procs \ {p} : procs[q].pc = "expire" /\ procs[q].url = url

\* A process sends the next command of its call; overlap records that its
\* SET fell between the SET and the EXPIRE of another caller
StepPage(p) ==
    /\ procs[p].pc # "idle"
    /\ LET r == count_url_access_step(redis, procs[p], now)
           i == Current(p)
           over == r.loc.pc = "return"
       IN  /\ redis' = r.st
           /\ procs' = [procs EXCEPT ![p] = IF over THEN Idle ELSE r.loc]
           /\ calls' = [calls EXCEPT
                  ![i].overlap = @ \/ (procs[p].pc = "set"
                                        /\ MidMiss(p, procs[p].url)),
                  ![i].ret = IF over THEN r.loc.ret ELSE @,
                  ![i].exc = IF over THEN r.loc.exc ELSE @,
                  ![i].done = over]
           /\ out' = IF over
                     THEN Outcome("get_page", PyStr(procs[p].url),
                                  r.loc.ret, r.loc.exc, <<>>)
                     ELSE out
    /\ UNCHANGED <<now, fetches, alt>>

\* A second passes on the server while calls are running
TickConc ==
    /\ now < MaxConcTime
    /\ now' = now + 1
    /\ redis' = Purge(redis, now + 1)
    /\ UNCHANGED <<out, calls, fetches, procs, alt>>

NextWebConc == (\E p \in Procs : CallPage(p) \/ StepPage(p)) \/ TickConc
SpecWebConc == Init /\ [][NextWebConc]_vars

\* C19: while no get_page call is running every cached page has a time to
\* live of at most 10 seconds, and a cached page without a time to live
\* exists only while a caller is between its SET and its EXPIRE for that
\* url, also when misses for the same url interleave.
C19_CachedPagesExpire ==
    \A u \in URLs :
        /\ (Quiescent /\ RedisExists(redis, "cached:" \o u)) =>
              TimeToLive(redis, "cached:" \o u, now) \in 1..TTL
        /\ TimeToLive(redis, "cached:" \o u, now) = -1 =>
              \E p \in Procs : procs[p].pc = "expire" /\ procs[p].url = u

\* Two misses for one url interleaved, SET SET EXPIRE EXPIRE with a second
\* between the two EXPIREs, and the page is left with a time to live
C19_Witness ==
    /\ Quiescent
    /\ Len(calls) = 2
    /\ calls[1].url = calls[2].url
    /\ calls[2].overlap
    /\ calls[1].ret = PyStr("<a>")
    /\ calls[2].ret = PyStr("<a>")
    /\ TimeToLive(redis, "cached:" \o calls[1].url, now) \in 1..TTL

===========================================================================
